---- MODULE Spec2Model ----
(***************************************************************************)
(* Model of the refresh / selection state machine of the mission-control   *)
(* dashboard, dashboard/src/App.tsx.                                       *)
(*                                                                         *)
(* The component state (useState hooks) is the set of variables below.     *)
(* The effect of lines 72-114 starts a refresh cycle (fetchAll) and an     *)
(* interval timer; it is re-run, after its cleanup, whenever               *)
(* selectedAgentId or refreshSeconds changes.  Every fetchAll invocation   *)
(* keeps the selectedAgentId of the render that created it (its closure).  *)
(* A handler and the re-run of the effect caused by its state updates are  *)
(* one step; the state updates of one continuation of fetchAll are applied *)
(* together (batched), as they are rendered together.                      *)
(***************************************************************************)
EXTENDS Integers, Sequences, FiniteSets, TLC

\* ---------------------------------------------------------------- bounds
\* number of refresh cycles that the mount, timer ticks and user input may start
\* (the cycles the component starts by itself are not limited)
MaxCycles == 2

\* longest agents collection given to the derived views
MaxAgents == 3

\* longest heartbeats collection given to the derived views
MaxHeartbeats == 3

\* longest perfMetrics collection given to the derived views
MaxMetrics == 3

\* ------------------------------------------------------------- constants
NULL == "null"

\* useState<Date | null>(null): no date
NoDate == -1

\* the result of a find() that finds nothing
NoAgent == [id |-> NULL, type |-> NULL, status |-> NULL]

\* useState<number>(15), and the fallback of the select's onChange
DefaultRefreshSeconds == 15

\* setInterval(fetchAll, refreshSeconds * 1000)
MsPerSecond == 1000

\* the <option> values of the refresh select
RefreshOptions == {5, 15, 60}

MainTab == {"crons", "decisions", "signals", "costs", "performance", "architecture"}

AgentType == {"CrewAI", "LangGraph", "BeeAI", "OpenClaw", "Admin"}

AgentStatus == {"online", "offline", "busy", "error"}

\* the four resources, in the order of the Promise.all array
Resources == <<"agents", "heartbeats", "performance metrics", "alerts">>

\* ------------------------------------------------- the collaborating API
\* Bodies the API answers with.  Agent identifiers are unique in a body.
Agent1 == [id |-> "a1", type |-> "CrewAI", status |-> "online"]

Agent2 == [id |-> "a2", type |-> "LangGraph", status |-> "error"]

Heartbeat1 == [id |-> "h1", agent_id |-> "a1", timestamp |-> 10, status |-> "online"]

Heartbeat2 == [id |-> "h2", agent_id |-> "a9", timestamp |-> 20, status |-> "busy"]

Perf1 == [agent_id |-> "a1", cpu_usage |-> 10]

Alert1 == [id |-> "al1", severity |-> "critical", related_agent_id |-> "a2"]

Alert2 == [id |-> "al2", severity |-> "info", related_agent_id |-> NULL]

Alert3 == [id |-> "al3", severity |-> "warning", related_agent_id |-> "a1"]

\* The data of the API at different times, one body per resource in the
\* order of Resources: a populated system, one where agent a1 has gone,
\* and one without agents.
Datasets ==
  << << <<Agent1, Agent2>>, <<Heartbeat2, Heartbeat1>>, <<Perf1>>, <<Alert1, Alert2>> >>,
     << <<Agent2>>, <<Heartbeat1>>, <<Perf1>>, <<Alert3, Alert1>> >>,
     << <<>>, <<Heartbeat2>>, <<>>, <<Alert2>> >> >>

\* HTTP statuses of the answers: a success and a failure
StatusOK == 200

StatusServerError == 500

Statuses == {StatusOK, StatusServerError}

\* message of the error a rejected fetch() carries
TransportError == "Failed to fetch"

\* The outcome of the Promise.all of one cycle: a rejection (some fetch
\* rejected; no response is looked at), or four responses.  When all four
\* succeed they carry one dataset; when some response is an HTTP failure
\* the successful ones carry the first dataset.
Rejection == [rejected |-> TRUE, res |-> <<>>]

\* no cycle has completed yet
NoOutcome == [rejected |-> FALSE, res |-> <<>>]

\* nothing has been clicked yet
NoClick == [on |-> "none", index |-> 0]

Responses(d, st) ==
  [rejected |-> FALSE,
   res |-> [i \in 1..4 |-> [status |-> st[i],
                            body |-> IF st[i] = StatusOK THEN Datasets[d][i] ELSE <<>>]]]

Outcomes ==
  {Rejection}
  \cup {Responses(d, [i \in 1..4 |-> StatusOK]) : d \in 1..Len(Datasets)}
  \cup {Responses(1, st) : st \in {f \in [1..4 -> Statuses] : \E i \in 1..4 : f[i] # StatusOK}}

\* ----------------------------------------------------------------- state
VARIABLES
  agents, heartbeats, perfMetrics, alerts,   \* the snapshot
  loading, error, selectedAgentId, activeTab,
  lastUpdated, showAlertsPanel, refreshSeconds,
  mounted,      \* the component is mounted (the effect has run once)
  timers,       \* active interval timers: [id, period, sel]
  inflight,     \* fetchAll invocations not yet completed: [id, sel]
  nextCycle,    \* number of the next refresh cycle
  nextTimer,    \* number of the next interval timer
  clock,        \* logical time, read by new Date()
  origin,       \* history: the cycle each collection of the snapshot came from
  settled,      \* history: the outcome of the cycle that completed last
  inputs,       \* history: number of cycles started by the mount, ticks and user input
  clicked       \* history: the click on a card or row handled by the last step, if any

snapshot == <<agents, heartbeats, perfMetrics, alerts>>

vars == <<agents, heartbeats, perfMetrics, alerts, loading, error,
          selectedAgentId, activeTab, lastUpdated, showAlertsPanel,
          refreshSeconds, mounted, timers, inflight, nextCycle, nextTimer,
          clock, origin, settled, clicked, inputs>>

\* ------------------------------------------------------- fetchAll, pure
\* Response.ok
ResOk(res) == res.status >= 200 /\ res.status <= 299

\* Promise.all rejects as soon as one of the fetches rejects
AnyRejected(r) == r.rejected

\* `Failed to load ${resource}: ${status}`
FailedToLoad(resource, status) == "Failed to load " \o resource \o ": " \o ToString(status)

\* variant: the four checks made in the opposite order
FirstNotOkReversed(r) ==
  IF ~ResOk(r.res[4]) THEN 4
  ELSE IF ~ResOk(r.res[3]) THEN 3
  ELSE IF ~ResOk(r.res[2]) THEN 2
  ELSE IF ~ResOk(r.res[1]) THEN 1
  ELSE 0

\* index of the first response that is not ok, 0 when all are ok:
\* the four `if (!res.ok) throw` in sequence
FirstNotOk(r) ==
  IF ~ResOk(r.res[1]) THEN 1
  ELSE IF ~ResOk(r.res[2]) THEN 2
  ELSE IF ~ResOk(r.res[3]) THEN 3
  ELSE IF ~ResOk(r.res[4]) THEN 4
  ELSE 0

\* the error caught by the catch block, NULL when the try block completes
Thrown(r) ==
  IF AnyRejected(r) THEN TransportError
  ELSE IF FirstNotOk(r) # 0
       THEN FailedToLoad(Resources[FirstNotOk(r)], r.res[FirstNotOk(r)].status)
       ELSE NULL

\* variant: each collection is set right after the check of its own response
WrittenPartial(r, i) == ~r.rejected /\ \A j \in 1..i : ResOk(r.res[j])

\* the i-th setter (setAgents .. setAlerts) is reached only when nothing was thrown
Written(r, i) == Thrown(r) = NULL

\* variant: the new rows are appended to the collection
AppliedMerge(r, i, old) == IF Written(r, i) THEN old \o r.res[i].body ELSE old

\* the value of the i-th collection after the cycle
Applied(r, i, old) == IF Written(r, i) THEN r.res[i].body ELSE old

\* variant: the success path does not call setError(null)
ErrorAfterSticky(r) == IF Thrown(r) = NULL THEN error ELSE Thrown(r)

\* setError(null) on success, setError(err.message) in the catch block
ErrorAfter(r) == Thrown(r)

\* setLastUpdated(new Date()) on success
LastUpdatedAfter(r, old, now) == IF Thrown(r) = NULL THEN now ELSE old

\* variant: the bootstrap selects the last agent
SelectionAfterLast(r, sel, cur) ==
  IF Thrown(r) = NULL /\ sel = NULL /\ Len(r.res[1].body) > 0
  THEN r.res[1].body[Len(r.res[1].body)].id
  ELSE cur

\* if (!selectedAgentId && agentsData.length > 0) setSelectedAgentId(agentsData[0].id)
\* sel is the selectedAgentId of the closure, cur the one of the state
SelectionAfter(r, sel, cur) ==
  IF Thrown(r) = NULL /\ sel = NULL /\ Len(r.res[1].body) > 0
  THEN r.res[1].body[1].id
  ELSE cur

\* variant: error is a dependency of the effect too
DepsChangedWithError(oldSel, newSel, oldSecs, newSecs) ==
  oldSel # newSel \/ oldSecs # newSecs \/ error' # error

\* variant: the effect has no dependency array and runs after every render
DepsChangedAlways(oldSel, newSel, oldSecs, newSecs) == TRUE

\* the dependency array [selectedAgentId, refreshSeconds]
DepsChanged(oldSel, newSel, oldSecs, newSecs) == oldSel # newSel \/ oldSecs # newSecs

\* variant: the effect has no cleanup
TimersAfterEffectLeak(old, new) == old \cup {new}

\* clearInterval(interval) of the cleanup, then setInterval of the new run
TimersAfterEffect(old, new) == {new}

\* Number(e.target.value) || 15
ParseRefresh(v) == IF v = 0 THEN DefaultRefreshSeconds ELSE v

\* ---------------------------------------------------------- derived views
\* variant: the first agent stands in when none is found
FindAgentOrFirst(as, id) ==
  IF \E i \in 1..Len(as) : as[i].id = id
  THEN as[CHOOSE i \in 1..Len(as) : as[i].id = id /\ \A j \in 1..(i-1) : as[j].id # id]
  ELSE IF Len(as) > 0 THEN as[1] ELSE NoAgent

\* agents.find((a) => a.id === id) ?? null
FindAgent(as, id) ==
  IF \E i \in 1..Len(as) : as[i].id = id
  THEN as[CHOOSE i \in 1..Len(as) : as[i].id = id /\ \A j \in 1..(i-1) : as[j].id # id]
  ELSE NoAgent

selectedAgent == FindAgent(agents, selectedAgentId)

\* variant: only offline agents are counted
OverdueCountOfflineOnly(as) == Len(SelectSeq(as, LAMBDA a : a.status = "offline"))

\* agents.filter((a) => a.status === 'offline' || a.status === 'error').length
OverdueCount(as) == Len(SelectSeq(as, LAMBDA a : a.status = "offline" \/ a.status = "error"))

overdueCount == OverdueCount(agents)

\* variant: the first metric of an agent is kept
PerfStepFirstWins(map, m) ==
  [k \in DOMAIN map \cup {m.agent_id} |-> IF k \in DOMAIN map THEN map[k] ELSE m]

\* map.set(m.agent_id, m)
PerfStep(map, m) ==
  [k \in DOMAIN map \cup {m.agent_id} |-> IF k = m.agent_id THEN m ELSE map[k]]

\* new Map<string, PerformanceMetric>()
EmptyMap == [k \in {} |-> NULL]

RECURSIVE PerfFold(_, _)
\* perfMetrics.forEach((m) => map.set(m.agent_id, m))
PerfFold(ms, map) ==
  IF ms = <<>> THEN map ELSE PerfFold(Tail(ms), PerfStep(map, Head(ms)))

PerfByAgent(ms) == PerfFold(ms, EmptyMap)

perfByAgent == PerfByAgent(perfMetrics)

\* index % 2 === 0 ? 'High' : 'Normal'
DecisionPriority(index) == IF index % 2 = 0 THEN "High" ELSE "Normal"

\* variant: only the first decision has a high priority
DecisionRowFirstHigh(agent, index) ==
  [id |-> "decision-" \o agent.id,
   agent |-> agent,
   title |-> "Pending decision #" \o ToString(index + 1),
   age |-> ToString(5 + index * 3) \o "h ago",
   priority |-> IF index = 0 THEN "High" ELSE "Normal"]

\* the row of decisions for the agent at position index (from 0)
DecisionRow(agent, index) ==
  [id |-> "decision-" \o agent.id,
   agent |-> agent,
   title |-> "Pending decision #" \o ToString(index + 1),
   age |-> ToString(5 + index * 3) \o "h ago",
   priority |-> DecisionPriority(index)]

\* agents.map((agent, index) => ({...}))
Decisions(as) == [i \in 1..Len(as) |-> DecisionRow(as[i], i - 1)]

decisions == Decisions(agents)

\* the row of signals for the agent at position index; label is omitted
\* (agents carry no name here)
SignalRow(agent, index) ==
  [id |-> "signal-" \o agent.id,
   agent |-> agent,
   time |-> ToString(2 + index) \o "h ago",
   type |-> agent.type]

Signals(as) == [i \in 1..Len(as) |-> SignalRow(as[i], i - 1)]

signals == Signals(agents)

\* (index + 1) * 0.12 and (index + 1) * 2.4, in hundredths
CostTodayUnit == 12

CostMonthUnit == 240

\* the row of costs for the agent at position index
CostRow(agent, index) ==
  [id |-> "cost-" \o agent.id,
   agent |-> agent,
   today |-> (index + 1) * CostTodayUnit,
   monthToDate |-> (index + 1) * CostMonthUnit]

Costs(as) == [i \in 1..Len(as) |-> CostRow(as[i], i - 1)]

costs == Costs(agents)

\* variant: the count of the type is set to one
CountStepAssign(counts, a) == [counts EXCEPT ![a.type] = 1]

\* counts[a.type] += 1
CountStep(counts, a) == [counts EXCEPT ![a.type] = @ + 1]

RECURSIVE CountFold(_, _)
CountFold(as, counts) ==
  IF as = <<>> THEN counts ELSE CountFold(Tail(as), CountStep(counts, Head(as)))

\* the counts start at 0 for the five types
TypeCounts(as) == CountFold(as, [t \in AgentType |-> 0])

typeCounts == TypeCounts(agents)

\* variant: a busy agent is counted as offline
HealthStepBusyOffline(health, a) ==
  IF a.status = "online"
  THEN [health EXCEPT ![a.type].online = @ + 1]
  ELSE [health EXCEPT ![a.type].offline = @ + 1]

\* online or busy adds to online, anything else to offline
HealthStep(health, a) ==
  IF a.status = "online" \/ a.status = "busy"
  THEN [health EXCEPT ![a.type].online = @ + 1]
  ELSE [health EXCEPT ![a.type].offline = @ + 1]

RECURSIVE HealthFold(_, _)
HealthFold(as, health) ==
  IF as = <<>> THEN health ELSE HealthFold(Tail(as), HealthStep(health, Head(as)))

TypeHealth(as) == HealthFold(as, [t \in AgentType |-> [online |-> 0, offline |-> 0]])

typeHealth == TypeHealth(agents)

\* variant: the heartbeat seen last replaces the value
ActivityStepLatest(last, hb, as) ==
  LET agent == FindAgent(as, hb.agent_id)
  IN IF agent = NoAgent THEN last ELSE [last EXCEPT ![agent.type] = hb.timestamp]

\* one heartbeat: skipped when its agent is not found, else kept when it is
\* the first of the type or later than the current value.  Timestamps are
\* the milliseconds new Date(hb.timestamp) stands for.
ActivityStep(last, hb, as) ==
  LET agent == FindAgent(as, hb.agent_id)
  IN IF agent = NoAgent
     THEN last
     ELSE IF last[agent.type] = NoDate \/ hb.timestamp > last[agent.type]
          THEN [last EXCEPT ![agent.type] = hb.timestamp]
          ELSE last

RECURSIVE ActivityFold(_, _, _)
ActivityFold(hbs, as, last) ==
  IF hbs = <<>> THEN last ELSE ActivityFold(Tail(hbs), as, ActivityStep(last, Head(hbs), as))

TypeLastActivity(hbs, as) == ActivityFold(hbs, as, [t \in AgentType |-> NoDate])

typeLastActivity == TypeLastActivity(heartbeats, agents)

\* the agents that get a row in the performance table:
\* agents.map with `if (!perf) return null`
PerformanceRows(as, ms) == SelectSeq(as, LAMBDA a : a.id \in DOMAIN PerfByAgent(ms))

\* number of entries the table of a tab maps over
RowCount(tab, as, hbs) ==
  IF tab = "crons" THEN Len(hbs)
  ELSE IF tab = "architecture" THEN 0
  ELSE Len(as)

\* the agent id the onClick of the i-th entry selects, NULL when the entry
\* renders no row
RowTarget(tab, i, as, hbs, ms) ==
  IF tab = "crons"
  THEN FindAgent(as, hbs[i].agent_id).id
  ELSE IF tab = "decisions" THEN Decisions(as)[i].agent.id
  ELSE IF tab = "signals" THEN Signals(as)[i].agent.id
  ELSE IF tab = "costs" THEN Costs(as)[i].agent.id
  ELSE IF tab = "performance"
       THEN IF as[i].id \in DOMAIN PerfByAgent(ms) THEN as[i].id ELSE NULL
       ELSE NULL

\* {loading && <div className="loading">}
LoadingShown == loading

\* {!loading && !error && (<button className="alert-strip">...)}
AlertStripShown == ~loading /\ error = NULL

\* variant: the banner is not gated on loading
ErrorBannerShownWhileLoading == error # NULL

\* {error && !loading && <div className="error-banner">}
ErrorBannerShown == error # NULL /\ ~loading

\* variant: the columns are gated on loading only
ColumnsShownNoError == ~loading

\* {!loading && !error && (<div className="columns">...)}
ColumnsShown == ~loading /\ error = NULL

\* {showAlertsPanel && alerts.length > 0 && (<div className="alerts-panel">...)}
AlertsPanelShown == ColumnsShown /\ showAlertsPanel /\ Len(alerts) > 0

\* variant: the related agent is taken from the alert without a lookup
AlertAgentUnchecked(a, as) ==
  IF a.related_agent_id # NULL
  THEN [id |-> a.related_agent_id, type |-> NULL, status |-> NULL]
  ELSE NoAgent

\* a.related_agent_id ? agents.find((ag) => ag.id === a.related_agent_id) : undefined
AlertAgent(a, as) ==
  IF a.related_agent_id # NULL THEN FindAgent(as, a.related_agent_id) ELSE NoAgent

\* the detail pane of the right column
DetailPane ==
  IF ~ColumnsShown THEN "hidden"
  ELSE IF selectedAgent # NoAgent THEN "detail" ELSE "empty"

\* --------------------------------------------------------------- actions
Init ==
  /\ agents = <<>>
  /\ heartbeats = <<>>
  /\ perfMetrics = <<>>
  /\ alerts = <<>>
  /\ loading = TRUE
  /\ error = NULL
  /\ selectedAgentId = NULL
  /\ activeTab = "crons"
  /\ lastUpdated = NoDate
  /\ showAlertsPanel = FALSE
  /\ refreshSeconds = DefaultRefreshSeconds
  /\ mounted = FALSE
  /\ timers = {}
  /\ inflight = {}
  /\ nextCycle = 1
  /\ nextTimer = 1
  /\ clock = 0
  /\ origin = [i \in 1..4 |-> 0]
  /\ settled = NoOutcome
  /\ clicked = NoClick
  /\ inputs = 0

\* One run of the effect body with the state of the render (sel, secs):
\* fetchAll() sets loading and issues the four fetches, setInterval starts
\* the timer; the cleanup of the previous run has cleared the old timer.
\* base is the set of cycles in flight before the run.
RunEffect(sel, secs, base) ==
  /\ loading' = TRUE
  /\ inflight' = base \cup {[id |-> nextCycle, sel |-> sel]}
  /\ nextCycle' = nextCycle + 1
  /\ timers' = TimersAfterEffect(timers, [id |-> nextTimer, period |-> secs * MsPerSecond, sel |-> sel])
  /\ nextTimer' = nextTimer + 1

\* first render: the effect runs
Mount ==
  /\ ~mounted
  /\ inputs < MaxCycles
  /\ inputs' = inputs + 1
  /\ mounted' = TRUE
  /\ RunEffect(selectedAgentId, refreshSeconds, inflight)
  /\ clock' = clock + 1
  /\ UNCHANGED <<agents, heartbeats, perfMetrics, alerts, error, selectedAgentId,
                 activeTab, lastUpdated, showAlertsPanel, refreshSeconds, origin, settled>>
  /\ clicked' = NoClick

\* the interval timer t fires: fetchAll of the effect run that created it
Tick(t) ==
  /\ mounted
  /\ t \in timers
  /\ inputs < MaxCycles
  /\ inputs' = inputs + 1
  /\ loading' = TRUE
  /\ inflight' = inflight \cup {[id |-> nextCycle, sel |-> t.sel]}
  /\ nextCycle' = nextCycle + 1
  /\ clock' = clock + 1
  /\ UNCHANGED <<agents, heartbeats, perfMetrics, alerts, error, selectedAgentId,
                 activeTab, lastUpdated, showAlertsPanel, refreshSeconds, mounted,
                 timers, nextTimer, origin, settled>>
  /\ clicked' = NoClick

\* the fetches of cycle c have settled as r: the rest of fetchAll runs
\* (try, catch and finally), then the effect if a dependency changed
Complete(c, r) ==
  /\ c \in inflight
  /\ agents' = Applied(r, 1, agents)
  /\ heartbeats' = Applied(r, 2, heartbeats)
  /\ perfMetrics' = Applied(r, 3, perfMetrics)
  /\ alerts' = Applied(r, 4, alerts)
  /\ origin' = [i \in 1..4 |-> IF Written(r, i) THEN c.id ELSE origin[i]]
  /\ settled' = r
  /\ error' = ErrorAfter(r)
  /\ lastUpdated' = LastUpdatedAfter(r, lastUpdated, clock + 1)
  /\ selectedAgentId' = SelectionAfter(r, c.sel, selectedAgentId)
  /\ clock' = clock + 1
  /\ IF DepsChanged(selectedAgentId, selectedAgentId', refreshSeconds, refreshSeconds)
     THEN RunEffect(selectedAgentId', refreshSeconds, inflight \ {c})
     ELSE /\ loading' = FALSE
          /\ inflight' = inflight \ {c}
          /\ UNCHANGED <<timers, nextCycle, nextTimer>>
  /\ UNCHANGED <<activeTab, showAlertsPanel, refreshSeconds, mounted, inputs>>
  /\ clicked' = NoClick

\* onChange of the refresh select with option value v
SetRefreshSeconds(v) ==
  /\ mounted
  /\ v # refreshSeconds
  /\ inputs < MaxCycles
  /\ inputs' = inputs + 1
  /\ refreshSeconds' = ParseRefresh(v)
  /\ clock' = clock + 1
  /\ RunEffect(selectedAgentId, refreshSeconds', inflight)
  /\ UNCHANGED <<agents, heartbeats, perfMetrics, alerts, error, selectedAgentId,
                 activeTab, lastUpdated, showAlertsPanel, mounted, origin, settled>>
  /\ clicked' = NoClick

\* setSelectedAgentId(id) from a click handler (the caller records the click)
SelectAgent(id) ==
  /\ selectedAgentId' = id
  /\ UNCHANGED <<agents, heartbeats, perfMetrics, alerts, error, activeTab,
                 lastUpdated, showAlertsPanel, refreshSeconds, mounted, origin, settled>>
  /\ IF DepsChanged(selectedAgentId, id, refreshSeconds, refreshSeconds)
     THEN /\ inputs < MaxCycles
          /\ inputs' = inputs + 1
          /\ RunEffect(id, refreshSeconds, inflight)
          /\ clock' = clock + 1
     ELSE UNCHANGED <<loading, inflight, nextCycle, timers, nextTimer, clock, inputs>>

\* click on the card of the i-th agent of the left rail
ClickAgentCard(i) ==
  /\ mounted
  /\ ColumnsShown
  /\ i \in 1..Len(agents)
  /\ clicked' = [on |-> "card", index |-> i]
  /\ SelectAgent(agents[i].id)

\* click on the i-th row of the table of the active tab
ClickRow(i) ==
  /\ mounted
  /\ ColumnsShown
  /\ i \in 1..RowCount(activeTab, agents, heartbeats)
  /\ RowTarget(activeTab, i, agents, heartbeats, perfMetrics) # NULL
  /\ clicked' = [on |-> "row", index |-> i]
  /\ SelectAgent(RowTarget(activeTab, i, agents, heartbeats, perfMetrics))

\* click on the i-th row of the alerts panel
ClickAlert(i) ==
  /\ mounted
  /\ ColumnsShown
  /\ AlertsPanelShown
  /\ i \in 1..Len(alerts)
  /\ clicked' = [on |-> "alert", index |-> i]
  /\ IF AlertAgent(alerts[i], agents) # NoAgent
     THEN SelectAgent(AlertAgent(alerts[i], agents).id)
     ELSE UNCHANGED <<agents, heartbeats, perfMetrics, alerts, loading, error,
                      selectedAgentId, activeTab, lastUpdated, showAlertsPanel,
                      refreshSeconds, mounted, timers, inflight, nextCycle,
                      nextTimer, clock, origin, settled, inputs>>

\* variant: activeTab is a dependency of the effect
SetActiveTabRefetch(t) ==
  /\ mounted
  /\ ColumnsShown
  /\ inputs < MaxCycles
  /\ inputs' = inputs + 1
  /\ activeTab' = t
  /\ clock' = clock + 1
  /\ RunEffect(selectedAgentId, refreshSeconds, inflight)
  /\ UNCHANGED <<agents, heartbeats, perfMetrics, alerts, error, selectedAgentId,
                 lastUpdated, showAlertsPanel, refreshSeconds, mounted, origin, settled>>
  /\ clicked' = NoClick

\* click on the tab t: setActiveTab(t)
SetActiveTab(t) ==
  /\ mounted
  /\ ColumnsShown
  /\ activeTab' = t
  /\ UNCHANGED <<agents, heartbeats, perfMetrics, alerts, loading, error,
                 selectedAgentId, lastUpdated, showAlertsPanel, refreshSeconds,
                 mounted, timers, inflight, nextCycle, nextTimer, clock,
                 origin, settled, inputs>>
  /\ clicked' = NoClick

\* click on the alert strip: setShowAlertsPanel((open) => !open)
ToggleAlertsPanel ==
  /\ mounted
  /\ ColumnsShown
  /\ showAlertsPanel' = ~showAlertsPanel
  /\ UNCHANGED <<agents, heartbeats, perfMetrics, alerts, loading, error,
                 selectedAgentId, activeTab, lastUpdated, refreshSeconds,
                 mounted, timers, inflight, nextCycle, nextTimer, clock,
                 origin, settled, inputs>>
  /\ clicked' = NoClick

Next ==
  \/ Mount
  \/ \E t \in timers : Tick(t)
  \/ \E c \in inflight : \E r \in Outcomes : Complete(c, r)
  \/ \E v \in RefreshOptions : SetRefreshSeconds(v)
  \/ \E i \in 1..Len(agents) : ClickAgentCard(i)

Spec == Init /\ [][Next]_vars

\* The whole interface: the refresh controller with the tabs, the alerts
\* panel and the table rows, against an API that fails by a rejection or
\* by a 500 on alerts only.
OutcomesUI ==
  {Rejection}
  \cup {Responses(d, [i \in 1..4 |-> StatusOK]) : d \in 1..Len(Datasets)}
  \cup {Responses(1, [i \in 1..4 |-> IF i = 4 THEN StatusServerError ELSE StatusOK])}

NextUI ==
  \/ Mount
  \/ \E t \in timers : Tick(t)
  \/ \E c \in inflight : \E r \in OutcomesUI : Complete(c, r)
  \/ \E v \in RefreshOptions : SetRefreshSeconds(v)
  \/ \E i \in 1..Len(agents) : ClickAgentCard(i)
  \/ \E i \in 1..RowCount(activeTab, agents, heartbeats) : ClickRow(i)
  \/ \E i \in 1..Len(alerts) : ClickAlert(i)
  \/ \E t \in MainTab : SetActiveTab(t)
  \/ ToggleAlertsPanel

SpecUI == Init /\ [][NextUI]_vars

\* ------------------------------------------- inputs of the derived views
\* identifier of the i-th agent of a collection
AgentId(i) == "a" \o ToString(i)

\* the types the agents of the inputs have
InputTypes == {"CrewAI", "LangGraph", "BeeAI"}

\* agents collections of up to MaxAgents agents with unique identifiers
AgentLists ==
  UNION {{[i \in 1..n |-> [id |-> AgentId(i), type |-> f[i][1], status |-> f[i][2]]] :
            f \in [1..n -> InputTypes \X AgentStatus]} : n \in 0..MaxAgents}

\* the agents heartbeats and metrics refer to; a9 is no agent of the snapshot
ReferredIds == {"a1", "a2", "a9"}

Timestamps == {10, 20, 30}

HeartbeatLists ==
  UNION {{[i \in 1..n |-> [id |-> "h" \o ToString(i), agent_id |-> f[i][1],
                           timestamp |-> f[i][2], status |-> "online"]] :
            f \in [1..n -> ReferredIds \X Timestamps]} : n \in 0..MaxHeartbeats}

CpuValues == {10, 20}

MetricLists ==
  UNION {{[i \in 1..n |-> [agent_id |-> f[i][1], cpu_usage |-> f[i][2]]] :
            f \in [1..n -> ReferredIds \X CpuValues]} : n \in 0..MaxMetrics}

\* The state once the snapshot <<a, h, p, l>> is loaded and displayed: the
\* mount, the completion of the first cycle with these bodies and, when it
\* selected the first agent, the completion of the cycle started by that
\* selection with the same bodies.
Loaded(a, h, p, l) ==
  LET k == IF Len(a) > 0 THEN 2 ELSE 1
      sel == IF Len(a) > 0 THEN a[1].id ELSE NULL
      bodies == <<a, h, p, l>>
  IN /\ agents = a
     /\ heartbeats = h
     /\ perfMetrics = p
     /\ alerts = l
     /\ loading = FALSE
     /\ error = NULL
     /\ selectedAgentId = sel
     /\ activeTab = "crons"
     /\ lastUpdated = k + 1
     /\ showAlertsPanel = FALSE
     /\ refreshSeconds = DefaultRefreshSeconds
     /\ mounted = TRUE
     /\ timers = {[id |-> k, period |-> DefaultRefreshSeconds * MsPerSecond, sel |-> sel]}
     /\ inflight = {}
     /\ nextCycle = k + 1
     /\ nextTimer = k + 1
     /\ clock = k + 1
     /\ origin = [i \in 1..4 |-> k]
     /\ settled = [rejected |-> FALSE,
                   res |-> [i \in 1..4 |-> [status |-> StatusOK, body |-> bodies[i]]]]
     /\ clicked = NoClick
     /\ inputs = 1

InitViews ==
  \/ \E a \in AgentLists : Loaded(a, Datasets[1][2], Datasets[1][3], Datasets[1][4])
  \/ \E h \in HeartbeatLists : Loaded(Datasets[1][1], h, Datasets[1][3], Datasets[1][4])
  \/ \E m \in MetricLists : Loaded(Datasets[1][1], Datasets[1][2], m, Datasets[1][4])

\* the tables of the views are displayed by selecting their tab
NextViews == \E t \in MainTab : SetActiveTab(t)

SpecViews == InitViews /\ [][NextViews]_vars

\* ---------------------------------------------------------------- claims
\* a step in which a refresh cycle completes
Completes == \E c \in inflight : c \notin inflight'

\* all four responses of outcome r have a success status
AllOk(r) == ~r.rejected /\ Len(r.res) = 4 /\ \A i \in 1..4 : r.res[i].status \in 200..299

\* outcome r is a failure: a rejection or some non-success status
Failed(r) == r.rejected \/ (Len(r.res) = 4 /\ \E i \in 1..4 : r.res[i].status \notin 200..299)

\* C1: the completion of a cycle in which a request failed leaves agents,
\* heartbeats, perfMetrics, alerts, lastUpdated and selectedAgentId as they were.
C1_FailureKeepsState ==
  [][(Completes /\ Failed(settled')) =>
       UNCHANGED <<agents, heartbeats, perfMetrics, alerts, lastUpdated, selectedAgentId>>]_vars

\* a cycle has failed after a snapshot with agents was loaded
C1_Witness ==
  /\ Failed(settled)
  /\ error # NULL
  /\ Len(agents) > 0
  /\ lastUpdated # NoDate
  /\ selectedAgentId # NULL

\* C2: in every state the four collections come from the same refresh cycle,
\* or are all the initial empty collections.
C2_SameCycle ==
  /\ \A i \in 1..4 : origin[i] = origin[1]
  /\ origin[1] = 0 => snapshot = << <<>>, <<>>, <<>>, <<>> >>

\* cycles overlap and the snapshot is not the one of the newest cycle
C2_Witness ==
  /\ origin[1] > 0
  /\ origin[1] < nextCycle - 1
  /\ Cardinality(inflight) >= 2

\* C3: the completion of a cycle that is not the newest one started
\* (a superseded cycle) changes neither the snapshot nor error nor lastUpdated.
C3_StaleDiscarded ==
  [][\A c \in inflight :
       (c \notin inflight' /\ c.id < nextCycle - 1) =>
         UNCHANGED <<agents, heartbeats, perfMetrics, alerts, error, lastUpdated>>]_vars

\* C4: once an agent is selected, the completion of a refresh cycle
\* leaves selectedAgentId unchanged.
C4_SelectionKept ==
  [][(Completes /\ selectedAgentId # NULL) => selectedAgentId' = selectedAgentId]_vars

\* C5: the completion of a cycle whose four responses are successful sets the
\* four collections to the four response bodies, error to null and lastUpdated
\* to the time of the completion.
C5_SuccessReplaces ==
  [][(Completes /\ AllOk(settled')) =>
       /\ agents' = settled'.res[1].body
       /\ heartbeats' = settled'.res[2].body
       /\ perfMetrics' = settled'.res[3].body
       /\ alerts' = settled'.res[4].body
       /\ error' = NULL
       /\ lastUpdated' # NoDate
       /\ lastUpdated' = clock']_vars

\* a successful cycle has replaced the snapshot in which a1 was selected
C5_Witness ==
  /\ AllOk(settled)
  /\ agents = <<Agent2>>
  /\ selectedAgentId = "a1"
  /\ error = NULL

\* C6: when a successful cycle completes while no agent is selected, the first
\* agent of the response becomes selected; with an empty response the
\* selection stays null and the detail pane shows the placeholder.
C6_Bootstrap ==
  [][(Completes /\ AllOk(settled') /\ selectedAgentId = NULL) =>
       IF Len(settled'.res[1].body) > 0
       THEN selectedAgentId' = settled'.res[1].body[1].id
       ELSE selectedAgentId' = NULL /\ DetailPane' = "empty"]_vars

\* the bootstrap has selected the first of two agents
C6_Witness ==
  /\ AllOk(settled)
  /\ agents = <<Agent1, Agent2>>
  /\ selectedAgentId = "a1"
  /\ origin[1] = 1

C8_FirstFailureNamed ==
  [][(Completes /\ ~settled'.rejected /\ Failed(settled')) =>
       /\ \E i \in 1..4 :
            /\ settled'.res[i].status \notin 200..299
            /\ \A j \in 1..(i - 1) : settled'.res[j].status \in 200..299
            /\ error' = "Failed to load " \o Resources[i] \o ": " \o ToString(settled'.res[i].status)
       /\ ([i \in 1..4 |-> settled'.res[i].status] = <<200, 200, 200, 500>>
             => error' = "Failed to load alerts: 500")]_vars

\* heartbeats and alerts have both failed: heartbeats is named
C8_Witness ==
  /\ Len(settled.res) = 4
  /\ [i \in 1..4 |-> settled.res[i].status] = <<200, 500, 200, 500>>
  /\ error = "Failed to load heartbeats: 500"

\* C9: the completion of a failed cycle starts no cycle and no timer; a cycle
\* is started only by the mount, by a tick of the timer, or by a change of
\* selectedAgentId or refreshSeconds.
C9_NoRetry ==
  [][/\ (Completes /\ Failed(settled')) =>
          (nextCycle' = nextCycle /\ inflight' \subseteq inflight /\ timers' = timers)
     /\ nextCycle' # nextCycle =>
          \/ ~mounted
          \/ selectedAgentId' # selectedAgentId
          \/ refreshSeconds' # refreshSeconds
          \/ (~Completes /\ timers # {} /\ timers' = timers)]_vars

\* a cycle has failed while another one is in flight
C9_Witness ==
  /\ Failed(settled)
  /\ error # NULL
  /\ inflight # {}

\* C10: refreshSeconds is initially 15 and always 5, 15 or 60; at most one
\* timer is active and its period is refreshSeconds; a change of the interval
\* or of the selected agent replaces the timer by a new one.
C10_OneTimer ==
  /\ refreshSeconds = 15
  /\ [](/\ refreshSeconds \in {5, 15, 60}
        /\ Cardinality(timers) <= 1
        /\ mounted => Cardinality(timers) = 1
        /\ \A t \in timers : t.period = refreshSeconds * 1000)
  /\ [][(refreshSeconds' # refreshSeconds \/ selectedAgentId' # selectedAgentId) =>
          (Cardinality(timers') = 1 /\ timers' \cap timers = {})]_vars

\* the timer was restarted by an interval change and by a selection
C10_Witness ==
  /\ refreshSeconds = 60
  /\ selectedAgentId # NULL
  /\ nextTimer >= 4
  /\ Cardinality(timers) = 1

\* the variables a step that only starts a cycle leaves unchanged
exceptCycleStart ==
  <<agents, heartbeats, perfMetrics, alerts, error, selectedAgentId, activeTab,
    lastUpdated, showAlertsPanel, refreshSeconds, mounted, timers, nextTimer>>

\* C11: a refresh cycle is started by the mount, by a tick of the active timer
\* and by every change of selectedAgentId or refreshSeconds, one cycle at
\* once, and by nothing else: a click on the selected agent, a change of tab
\* and a toggle of the alerts panel start none.
C11_CycleStarts ==
  [][/\ nextCycle' \in {nextCycle, nextCycle + 1}
     /\ (~mounted /\ mounted') => nextCycle' = nextCycle + 1
     /\ (selectedAgentId' # selectedAgentId \/ refreshSeconds' # refreshSeconds) =>
          /\ nextCycle' = nextCycle + 1
          /\ [id |-> nextCycle, sel |-> selectedAgentId'] \in inflight'
     /\ nextCycle' # nextCycle =>
          \/ ~mounted
          \/ selectedAgentId' # selectedAgentId
          \/ refreshSeconds' # refreshSeconds
          \/ (timers # {} /\ inflight \subseteq inflight' /\ UNCHANGED exceptCycleStart)
     /\ (clicked' # NoClick /\ selectedAgentId' = selectedAgentId) => nextCycle' = nextCycle
     /\ activeTab' # activeTab => nextCycle' = nextCycle
     /\ showAlertsPanel' # showAlertsPanel => nextCycle' = nextCycle]_vars

\* the selected agent was clicked again, on another tab with the panel open
C11_Witness ==
  /\ clicked # NoClick
  /\ clicked.on = "row"
  /\ ~loading
  /\ activeTab = "decisions"
  /\ showAlertsPanel
  /\ selectedAgentId # NULL

\* C12: activeTab is initially crons and always one of the six tabs; a step
\* that changes it changes no other part of the state, starts no cycle and
\* no timer.
C12_TabOnly ==
  /\ activeTab = "crons"
  /\ [](activeTab \in {"crons", "decisions", "signals", "costs", "performance", "architecture"})
  /\ [][activeTab' # activeTab =>
          UNCHANGED <<agents, heartbeats, perfMetrics, alerts, loading, error,
                      selectedAgentId, lastUpdated, showAlertsPanel, refreshSeconds,
                      mounted, timers, inflight, nextCycle, nextTimer>>]_vars

\* a tab was selected while a snapshot is displayed and an error-free state kept
C12_Witness ==
  /\ activeTab = "architecture"
  /\ Len(agents) > 0
  /\ ColumnsShown
  /\ showAlertsPanel

\* C13: when selectedAgentId names no agent of the snapshot, selectedAgent is
\* null and the detail pane, when the columns are rendered, shows the
\* placeholder; the views of the agents do not depend on the selection.
C13_UnknownSelection ==
  (selectedAgentId # NULL /\ \A i \in 1..Len(agents) : agents[i].id # selectedAgentId) =>
    /\ selectedAgent = NoAgent
    /\ ColumnsShown => DetailPane = "empty"
    /\ Len(decisions) = Len(agents)
    /\ overdueCount <= Len(agents)

\* the selected agent a1 is not in the displayed snapshot
C13_Witness ==
  /\ selectedAgentId = "a1"
  /\ agents = <<Agent2>>
  /\ ColumnsShown
  /\ DetailPane = "empty"

\* the positions of the agents of collection as that satisfy P
Positions(as, P(_)) == {i \in 1..Len(as) : P(as[i])}

\* C14: overdueCount is the number of agents whose status is offline or
\* error, and is at most the number of agents.
C14_OverdueCount ==
  /\ overdueCount = Cardinality(Positions(agents, LAMBDA a : a.status \in {"offline", "error"}))
  /\ overdueCount <= Len(agents)

\* three agents, online, error and offline: two are overdue
C14_Witness ==
  /\ Len(agents) = 3
  /\ <<agents[1].status, agents[2].status, agents[3].status>> = <<"online", "error", "offline">>
  /\ overdueCount = 2

\* C15: typeCounts gives for each of the five types the number of agents of
\* that type, and the five counts add up to the number of agents.
C15_TypeCounts ==
  /\ DOMAIN typeCounts = {"CrewAI", "LangGraph", "BeeAI", "OpenClaw", "Admin"}
  /\ \A t \in {"CrewAI", "LangGraph", "BeeAI", "OpenClaw", "Admin"} :
       typeCounts[t] = Cardinality(Positions(agents, LAMBDA a : a.type = t))
  /\ typeCounts["CrewAI"] + typeCounts["LangGraph"] + typeCounts["BeeAI"]
       + typeCounts["OpenClaw"] + typeCounts["Admin"] = Len(agents)

\* two agents of one type and one of another
C15_Witness ==
  /\ Len(agents) = 3
  /\ typeCounts["CrewAI"] = 2
  /\ typeCounts["BeeAI"] = 1

\* C16: for every type, typeHealth counts as online the agents of the type
\* that are online or busy, as offline those that are offline or error, and
\* the two counts add up to typeCounts of the type.
C16_TypeHealth ==
  \A t \in {"CrewAI", "LangGraph", "BeeAI", "OpenClaw", "Admin"} :
    /\ typeHealth[t].online =
         Cardinality(Positions(agents, LAMBDA a : a.type = t /\ a.status \in {"online", "busy"}))
    /\ typeHealth[t].offline =
         Cardinality(Positions(agents, LAMBDA a : a.type = t /\ a.status \in {"offline", "error"}))
    /\ typeHealth[t].online + typeHealth[t].offline = typeCounts[t]

\* a busy and an error agent of one type, an online agent of another
C16_Witness ==
  /\ Len(agents) = 3
  /\ typeHealth["CrewAI"] = [online |-> 1, offline |-> 1]
  /\ typeHealth["LangGraph"] = [online |-> 1, offline |-> 0]
  /\ \E i \in 1..3 : agents[i].type = "CrewAI" /\ agents[i].status = "busy"

\* the timestamps of the heartbeats whose agent_id is an agent of type t
ActivityOf(t) ==
  {heartbeats[i].timestamp : i \in
     {j \in 1..Len(heartbeats) :
        \E k \in 1..Len(agents) :
          agents[k].id = heartbeats[j].agent_id /\ agents[k].type = t}}

\* C17: for every type, typeLastActivity is the greatest timestamp of the
\* heartbeats whose agent_id is an agent of that type, and no value when
\* there is none; heartbeats of unknown agents do not count.
C17_LastActivity ==
  \A t \in {"CrewAI", "LangGraph", "BeeAI", "OpenClaw", "Admin"} :
    IF ActivityOf(t) = {}
    THEN typeLastActivity[t] = NoDate
    ELSE /\ typeLastActivity[t] \in ActivityOf(t)
         /\ \A ts \in ActivityOf(t) : ts <= typeLastActivity[t]

\* the latest heartbeat of a1 comes first, the last one is of an unknown agent
C17_Witness ==
  /\ Len(heartbeats) = 3
  /\ <<heartbeats[1].agent_id, heartbeats[2].agent_id, heartbeats[3].agent_id>> = <<"a1", "a1", "a9">>
  /\ <<heartbeats[1].timestamp, heartbeats[2].timestamp, heartbeats[3].timestamp>> = <<20, 10, 30>>
  /\ typeLastActivity["CrewAI"] = 20
  /\ typeLastActivity["LangGraph"] = NoDate

\* C18: decisions, signals and costs have one row per agent, in the order of
\* the agents; the row of the agent at index i (from 0) has title number
\* i + 1, age 5 + 3i hours, priority High for even i and Normal for odd i,
\* signal time 2 + i hours, and costs of i + 1 times 0.12 and 2.4.
C18_IndexRows ==
  /\ Len(decisions) = Len(agents)
  /\ Len(signals) = Len(agents)
  /\ Len(costs) = Len(agents)
  /\ \A n \in 1..Len(agents) :
       LET i == n - 1
       IN /\ decisions[n].agent = agents[n]
          /\ decisions[n].title = "Pending decision #" \o ToString(i + 1)
          /\ decisions[n].age = ToString(5 + 3 * i) \o "h ago"
          /\ decisions[n].priority = (IF i \in {0, 2, 4, 6} THEN "High" ELSE "Normal")
          /\ signals[n].agent = agents[n]
          /\ signals[n].time = ToString(2 + i) \o "h ago"
          /\ costs[n].agent = agents[n]
          /\ costs[n].today = 12 * (i + 1)
          /\ costs[n].monthToDate = 240 * (i + 1)

\* the decisions of three agents are displayed
C18_Witness ==
  /\ Len(agents) = 3
  /\ activeTab = "decisions"
  /\ <<decisions[1].priority, decisions[2].priority, decisions[3].priority>> = <<"High", "Normal", "High">>
  /\ decisions[3].age = "11h ago"

\* the position of the last metric of agent id in perfMetrics
LastMetric(id) ==
  CHOOSE i \in 1..Len(perfMetrics) :
    /\ perfMetrics[i].agent_id = id
    /\ \A j \in (i + 1)..Len(perfMetrics) : perfMetrics[j].agent_id # id

\* C19: perfByAgent maps exactly the agent identifiers of perfMetrics, each
\* to its last metric; the performance table has a row for exactly the
\* agents with a metric, in the order of the agents.
C19_PerfByAgent ==
  /\ DOMAIN perfByAgent = {perfMetrics[i].agent_id : i \in 1..Len(perfMetrics)}
  /\ \A id \in DOMAIN perfByAgent : perfByAgent[id] = perfMetrics[LastMetric(id)]
  /\ LET rows == PerformanceRows(agents, perfMetrics)
         with == {i \in 1..Len(agents) :
                    \E j \in 1..Len(perfMetrics) : perfMetrics[j].agent_id = agents[i].id}
     IN /\ Len(rows) = Cardinality(with)
        /\ \A i \in 1..Len(agents) :
             (i \in with) <=> (\E n \in 1..Len(rows) : rows[n] = agents[i])
        /\ \A n, m \in 1..Len(rows) :
             n < m => \E i, j \in with : i < j /\ rows[n] = agents[i] /\ rows[m] = agents[j]

\* two different metrics of a1, none of a2
C19_Witness ==
  /\ Len(perfMetrics) = 3
  /\ <<perfMetrics[1].agent_id, perfMetrics[2].agent_id, perfMetrics[3].agent_id>> = <<"a1", "a9", "a1">>
  /\ <<perfMetrics[1].cpu_usage, perfMetrics[3].cpu_usage>> = <<10, 20>>
  /\ perfByAgent["a1"].cpu_usage = 20
  /\ "a2" \notin DOMAIN perfByAgent
  /\ Len(PerformanceRows(agents, perfMetrics)) = 1

\* C20: a click on an alert whose related agent is in the snapshot selects
\* that agent; a click on an alert without related agent, or with one that
\* is not in the snapshot, changes nothing and starts no cycle.
C20_AlertClick ==
  [][clicked'.on = "alert" =>
       LET a == alerts[clicked'.index]
       IN IF /\ a.related_agent_id # NULL
             /\ \E j \in 1..Len(agents) : agents[j].id = a.related_agent_id
          THEN selectedAgentId' = a.related_agent_id
          ELSE UNCHANGED <<agents, heartbeats, perfMetrics, alerts, loading, error,
                           selectedAgentId, activeTab, lastUpdated, showAlertsPanel,
                           refreshSeconds, mounted, timers, inflight, nextCycle,
                           nextTimer, clock>>]_vars

\* an alert of the agent a1 that has gone was clicked while a2 is selected
C20_Witness ==
  /\ clicked = [on |-> "alert", index |-> 1]
  /\ alerts[1] = Alert3
  /\ agents = <<Agent2>>
  /\ selectedAgentId = "a2"
  /\ ~loading

\* C21: error changes only when a refresh cycle completes: the completion of
\* a failed cycle sets it, the completion of a successful cycle clears it,
\* and no tab change, selection, toggle of the alerts panel, interval change
\* or start of a cycle changes it.
C21_ErrorPersists ==
  [][/\ ~Completes => error' = error
     /\ (Completes /\ Failed(settled')) => error' # NULL
     /\ (Completes /\ AllOk(settled')) => error' = NULL
     /\ (error # NULL /\ error' = NULL) => (Completes /\ AllOk(settled'))]_vars

\* the mount cycle has failed and the user then changed the interval: the
\* cycle this started is in flight and the error is still set
C21_Witness ==
  /\ error # NULL
  /\ nextCycle = 3
  /\ inflight # {}
  /\ \A c \in inflight : c.id = 2
  /\ loading
  /\ refreshSeconds # DefaultRefreshSeconds

\* the main views that are rendered
ViewsShown ==
  {v \in {"loading", "banner", "content"} :
     \/ v = "loading" /\ LoadingShown
     \/ v = "banner" /\ ErrorBannerShown
     \/ v = "content" /\ ColumnsShown}

\* C22: exactly one of the loading indicator, the error banner and the main
\* content is rendered, and the alert strip is rendered with the main
\* content and only with it.
C22_OneView ==
  /\ Cardinality(ViewsShown) = 1
  /\ AlertStripShown <=> ColumnsShown

\* a failed refresh after the alerts panel was opened on a loaded snapshot:
\* only the banner is rendered
C22_Witness ==
  /\ ViewsShown = {"banner"}
  /\ ~AlertStripShown
  /\ showAlertsPanel
  /\ agents # <<>>

\* C23: loading is true whenever at least one refresh cycle is in flight,
\* and becomes false only when no started cycle remains uncompleted.
C23_LoadingWhileInFlight ==
  /\ inflight # {} => loading
  /\ ~loading => inflight = {}

\* C24: after the mount and before any timer tick or user input, the
\* successful completion of the mount cycle with a non-empty agents
\* collection starts exactly one more cycle, for the first agent; its
\* completion with an empty collection, and the successful completion of
\* the second cycle, start none: at most two cycles are started.
C24_BootstrapCycles ==
  [][/\ (inputs = 1 /\ Completes /\ AllOk(settled')) =>
          LET c == CHOOSE x \in inflight : x \notin inflight'
              first == settled'.res[1].body
          IN IF c.id = 1 /\ Len(first) > 0
             THEN /\ nextCycle' = 3
                  /\ inflight' = {[id |-> 2, sel |-> first[1].id]}
             ELSE /\ nextCycle' = nextCycle
                  /\ inflight' = {}
     /\ inputs' <= 1 => nextCycle' <= 3]_vars

\* the mount cycle and the cycle of the bootstrap selection have completed
\* with the same two agents, and nothing else has happened
C24_Witness ==
  /\ inputs = 1
  /\ nextCycle = 3
  /\ inflight = {}
  /\ AllOk(settled)
  /\ agents = <<Agent1, Agent2>>
  /\ origin[1] = 2
  /\ selectedAgentId = "a1"
  /\ ~loading

====
